---- MODULE Spec2Model ----
(***************************************************************************)
(* action-verified-commit (src/src/index.js): replication of one local git *)
(* commit into GitHub through the git data API (blobs, tree, commit, ref).  *)
(*                                                                         *)
(* Strings that the program parses or rewrites (the `git ls-tree` listing,  *)
(* the commit identifier returned by simple-git) are sequences of           *)
(* one-character strings, so that split / trimEnd / replace are computed.   *)
(* JavaScript `undefined` is the one-element sequence <<"undefined">>,      *)
(* which is no sequence of characters.                                      *)
(***************************************************************************)
EXTENDS Integers, Sequences, FiniteSets, TLC

(***************************************************************************)
(* JavaScript string primitives                                            *)
(***************************************************************************)
Undefined == <<"undefined">>

\* The characters matched by the regular expression /\s/ that occur here.
Whitespace == {" ", "\t", "\n"}

\* String.prototype.trimEnd
RECURSIVE trimEnd(_)
trimEnd(s) ==
  IF s = <<>> THEN <<>>
  ELSE IF s[Len(s)] \in Whitespace THEN trimEnd(SubSeq(s, 1, Len(s) - 1))
  ELSE s

\* String.prototype.split on a separator that is one character of `seps`:
\* every occurrence separates, empty pieces are kept, "" splits to [""].
RECURSIVE SplitFrom(_, _, _)
SplitFrom(s, seps, cur) ==
  IF s = <<>> THEN <<cur>>
  ELSE IF Head(s) \in seps THEN <<cur>> \o SplitFrom(Tail(s), seps, <<>>)
  ELSE SplitFrom(Tail(s), seps, Append(cur, Head(s)))

split(s, seps) == SplitFrom(s, seps, <<>>)

\* Array element read / destructuring: a missing element is undefined.
At(arr, k) == IF k <= Len(arr) THEN arr[k] ELSE Undefined

\* Whether `pat` occurs in `s` at position k.
OccursAt(s, pat, k) ==
  /\ k + Len(pat) - 1 <= Len(s)
  /\ SubSeq(s, k, k + Len(pat) - 1) = pat

\* String.prototype.replace(pat, "") with a string pattern: the first
\* occurrence only.
replaceFirst(s, pat) ==
  IF \E k \in 1..Len(s) : OccursAt(s, pat, k)
  THEN LET k == CHOOSE j \in 1..Len(s) :
                  /\ OccursAt(s, pat, j)
                  /\ \A h \in 1..(j - 1) : ~OccursAt(s, pat, h)
       IN SubSeq(s, 1, k - 1) \o SubSeq(s, k + Len(pat), Len(s))
  ELSE s

\* String.prototype.replace(/pat$/, ''): `pat` is removed where the string
\* ends with it.
replaceAtEnd(s, pat) ==
  IF Len(pat) <= Len(s) /\ OccursAt(s, pat, Len(s) - Len(pat) + 1)
  THEN SubSeq(s, 1, Len(s) - Len(pat))
  ELSE s

\* Array.prototype.slice(from, to) with 0-based, non-negative indices: the
\* elements that exist in that range.
slice(arr, from, to) ==
  LET last == IF to < Len(arr) THEN to ELSE Len(arr)
  IN IF from + 1 > last THEN <<>> ELSE SubSeq(arr, from + 1, last)

(***************************************************************************)
(* Bounds and the universe the inputs are drawn from                       *)
(***************************************************************************)
\* The most entries a tree snapshot holds.
MaxEntries == 2

\* The runs of the action that exist; Spec uses the first, SpecPair both.
RunIds == {1, 2}

Mode644 == <<"1", "0", "0", "6", "4", "4">>
Mode755 == <<"1", "0", "0", "7", "5", "5">>
TypeBlob == <<"b", "l", "o", "b">>
ShaA == <<"a", "1">>
ShaB == <<"b", "2">>
\* Paths in the order git lists them; the first one has a directory and a
\* space in its name.
PathOrder == << <<"d", "/", "z", " ", "w">>, <<"x", ".", "t">>, <<"y", ".", "t">> >>
PathMode == <<Mode755, Mode644, Mode644>>
ShaChoice == <<ShaA, ShaB>>

UsedPaths == 1..(IF MaxEntries < Len(PathOrder) THEN MaxEntries ELSE Len(PathOrder))

\* A tree snapshot, as the local object store records it: a choice, per path,
\* of "absent" (0) or one of the contents; entries come in path order.
RECURSIVE SnapshotFrom(_, _)
SnapshotFrom(f, k) ==
  IF k > Len(PathOrder) \/ k \notin DOMAIN f THEN <<>>
  ELSE (IF f[k] = 0 THEN <<>>
        ELSE << [mode |-> PathMode[k], type |-> TypeBlob,
                 sha |-> ShaChoice[f[k]], path |-> PathOrder[k]] >>)
       \o SnapshotFrom(f, k + 1)

Snapshots == { SnapshotFrom(f, 1) : f \in [UsedPaths -> 0..Len(ShaChoice)] }

\* The trees of the checked-out commit: every set of paths, one content.
HeadSnapshots == { SnapshotFrom(f, 1) : f \in [UsedPaths -> 0..1] }

\* Forms of the URL of the origin remote of the repository o/r, as
\* `git remote get-url origin` prints them (a line feed ends the output):
\* https with and without the .git suffix, ssh as a URL, scp-like ssh, and
\* https on a host that serves repositories under a path prefix.
DotGit == <<".", "g", "i", "t">>
HttpsUrl == <<"h", "t", "t", "p", "s", ":", "/", "/", "g", "h", "/", "o", "/", "r">>
SshUrl == <<"s", "s", "h", ":", "/", "/", "g", "@", "g", "h", "/", "o", "/", "r">>
ScpUrl == <<"g", "@", "g", "h", ":", "o", "/", "r">>
PrefixUrl == <<"h", "t", "t", "p", "s", ":", "/", "/", "g", "h", "/", "p", "/", "o", "/", "r">>
StandardOrigin == HttpsUrl \o DotGit \o <<"\n">>
OriginUrls ==
  { StandardOrigin, HttpsUrl \o <<"\n">>, SshUrl \o DotGit \o <<"\n">>,
    ScpUrl \o DotGit \o <<"\n">>, PrefixUrl \o DotGit \o <<"\n">> }

\* user.name and user.email of the local git configuration: not set, or
\* what the run sets.
NoUser == "none"
LocalUser == "local_user"
NoEmail == "none"
LocalEmail == "local_user@example.com"

Branches == {"main", "feat", "HEAD"}
NoRef == "none"
\* Commits the remote holds before any run: c0 is what was checked out.
OldCommits == {"c0", "c1"}
NewCommitSha(r) == <<"n1", "n2">>[r]
\* The identifier git gives the helper commit.
HelperCommit == <<"l", "c">>
HeadPrefix == <<"H", "E", "A", "D", " ">>

(***************************************************************************)
(* Local git (simple-git) as the program uses it                           *)
(***************************************************************************)
\* `git ls-tree -r --full-tree`: one line per entry,
\* <mode> SP <type> SP <sha> TAB <path> LF.
RECURSIVE lsTreeOutput(_)
lsTreeOutput(entries) ==
  IF entries = <<>> THEN <<>>
  ELSE LET e == Head(entries)
       IN e.mode \o <<" ">> \o e.type \o <<" ">> \o e.sha \o <<"\t">> \o e.path
            \o <<"\n">> \o lsTreeOutput(Tail(entries))

\* What a commit reference resolves to in the local repository once the
\* helper commit exists: the helper commit holds the work tree, its first
\* parent is the commit that was checked out. Anything else does not resolve.
resolveTree(repo, ref) ==
  IF ~repo.committed THEN {}
  ELSE IF ref = HelperCommit THEN {repo.workTree}
  ELSE IF ref = HelperCommit \o <<"~", "1">> THEN {repo.headTree}
  ELSE {}

\* The outcomes of CONTEXT.git.raw('ls-tree', '-r', '--full-tree', ref):
\* the listing, or a rejection (always possible: git can fail).
gitRawLsTree(repo, ref) ==
  { [ok |-> TRUE, output |-> lsTreeOutput(t)] : t \in resolveTree(repo, ref) }
    \cup { [ok |-> FALSE, output |-> <<>>] }

\* The summary simple-git returns for the helper commit: on a detached HEAD
\* its commit field carries a 'HEAD ' prefix.
commitSummary(repo) ==
  IF repo.branch = "HEAD" THEN HeadPrefix \o HelperCommit ELSE HelperCommit

\* status.isClean(): nothing differs from the checked-out commit.
isClean(repo) == repo.workTree = repo.headTree

(***************************************************************************)
(* getTree (index.js 69-89): parsing of the listing                        *)
(***************************************************************************)
parseTreeObject(treeObject) ==
  LET fields == split(treeObject, Whitespace)
  IN [mode |-> At(fields, 1),
      type |-> At(fields, 2),
      sha  |-> At(fields, 3),
      path |-> At(split(treeObject, {"\t"}), 2)]

getTree(output) ==
  LET lines == split(trimEnd(output), {"\n"})
  IN [k \in 1..Len(lines) |-> parseTreeObject(lines[k])]

(***************************************************************************)
(* State                                                                   *)
(***************************************************************************)
VARIABLES
  runs,          \* the runs of the action taking part
  treeReads,     \* per run: the two getTree calls of createGithubBlobs
  localRepo,     \* per run: the checked-out repository the action works in
  remoteRefs,    \* GitHub: branch -> commit it points at, or NoRef
  remoteCommits, \* GitHub: the commit objects created by the runs
  INPUTS,        \* per run: CONTEXT.INPUTS
  REPO,          \* per run: CONTEXT.REPO
  TASK,          \* per run: CONTEXT.TASK
  pc,            \* per run: where the run is
  desiredTree,   \* per run: createGithubVerifiedCommit's desiredTree
  previousTree,  \* per run: createGithubBlobs' previousTree
  tree,          \* per run: createGithubBlobs' tree
  idx,           \* per run: position of createGithubBlobs' loop in tree
  promisesGithubCreateBlobs, \* per run: state of every createBlob promise
  treeSha,       \* per run: createGithubTreeAndCommit's treeSha
  calls,         \* per run: what was called and what came back, in order
  failure        \* per run: the error handed to core.setFailed

vars == <<runs, treeReads, localRepo, remoteRefs, remoteCommits, INPUTS, REPO, TASK, pc,
          desiredTree, previousTree, tree, idx, promisesGithubCreateBlobs,
          treeSha, calls, failure>>

NoError == [at |-> "none", message |-> <<>>]

\* One entry of the per-run record of calls: ph is "call", "ok" or "err".
Event(op, ph, arg) == [op |-> op, ph |-> ph, arg |-> arg]

CallsOf(r, op, ph) == SelectSeq(calls[r], LAMBDA e : e.op = op /\ e.ph = ph)
Issued(r, op) == CallsOf(r, op, "call")
Terminated(r) == pc[r] \in {"exited", "completed", "failed", "crashed"}

(***************************************************************************)
(* The decisions of the code, one operator each                            *)
(***************************************************************************)
\* identifyRepository, lines 15-19.
ownerAndRepo(originRemote) ==
  slice(split(replaceAtEnd(trimEnd(originRemote), DotGit), {"/"}), 3, 5)

\* identifyRepository (11-29): branch and sha of the checkout, owner and
\* repo from the URL of the origin remote.
identifyRepository(repo) ==
  [repo   |-> At(ownerAndRepo(repo.origin), 2),
   owner  |-> At(ownerAndRepo(repo.origin), 1),
   branch |-> repo.branch,
   sha    |-> repo.head]

\* Fault: the checked-out branch is not the default of the branch input.
taskBranchInputOnly(inputs, repo) == inputs.branch

\* run, line 204.
taskBranch(inputs, repo) == IF inputs.branch # "" THEN inputs.branch ELSE repo.branch

\* run, line 215.
useRemoteBranch(task, repo) == task.branch # repo.branch

\* Fault: every Error is thrown again, "Reference already exists" too.
rethrowsEveryError(error) == error.isError

\* createRemoteBranch, line 57: the rejections that are thrown again.
rethrowsCreateRefError(error) ==
  error.isError /\ error.message # "Reference already exists"

\* Fault: an entry counts as uploaded only if the same path had that content.
inPreviousTreeSamePath(prev, treeEntry) ==
  \E k \in 1..Len(prev) : prev[k].sha = treeEntry.sha /\ prev[k].path = treeEntry.path

\* createGithubBlobs, line 106: the blob is taken to be uploaded already.
inPreviousTree(prev, treeEntry) ==
  \E k \in 1..Len(prev) : prev[k].sha = treeEntry.sha

\* Fault: CONTEXT.TASK.lastCommitSha is never seeded.
initialLastCommitShaUnset(repo) == "undefined"

\* run, line 201: the value CONTEXT.TASK.lastCommitSha starts with.
initialLastCommitSha(repo) == repo.sha

\* Fault: the helper commit is given as the parent.
commitParentsLocal(task) == <<task.localCommit>>

\* createGithubTreeAndCommit, line 149.
commitParents(task) == <<task.lastCommitSha>>

\* Fault: the parent of the new commit is kept as the last commit.
taskAfterCreateCommitParent(task, data) ==
  [task EXCEPT !.lastCommitSha = data.parents[1]]

\* createGithubTreeAndCommit, line 152: CONTEXT.TASK after createCommit
\* returned `data`.
taskAfterCreateCommit(task, data) == [task EXCEPT !.lastCommitSha = data.sha]

\* Fault: the reference is named as createRef wants it.
updateRefRequestFullRef(task) ==
  [ref |-> <<"refs/heads/", task.branch>>, sha |-> task.lastCommitSha, force |-> TRUE]

\* Fault: the reference is updated without force.
updateRefRequestNoForce(task) ==
  [ref |-> <<"heads/", task.branch>>, sha |-> task.lastCommitSha, force |-> FALSE]

\* updateGithubRef, lines 157-163.
updateRefRequest(task) ==
  [ref |-> <<"heads/", task.branch>>, sha |-> task.lastCommitSha, force |-> TRUE]

\* Fault: a failed run withdraws the uploads it still has in flight.
uploadWithdrawnOnFailure(at, promise) ==
  promise = "pending" /\ at \notin {"crashed", "failed"}

\* createGithubBlobs, lines 113-121: a createBlob request that was sent stays
\* in flight until it settles or the process ends; nothing aborts it.
uploadOutstanding(at, promise) == promise = "pending" /\ at # "crashed"

\* One getTree call of createGithubBlobs: not made, running, or returned.
NoRead == [state |-> "none", output |-> <<>>]
Reading == [state |-> "pending", output |-> <<>>]
readResult(res) == [state |-> IF res.ok THEN "ok" ELSE "err", output |-> res.output]

\* Fault: the two tree reads of createGithubBlobs are joined on the target alone.
treesReadTargetOnly(prev, cur) == cur.state = "ok"

\* createGithubBlobs, line 101: Promise.all over the two getTree calls is
\* fulfilled when both are, and rejected as soon as one is.
treesRead(prev, cur) == prev.state = "ok" /\ cur.state = "ok"
treeReadRejected(prev, cur) == prev.state = "err" \/ cur.state = "err"

\* Fault: createTree's error is passed on as it came.
treeErrorMessageUnwrapped(message) == message

\* createGithubTreeAndCommit, line 140.
treeErrorMessage(message) == <<"Cannot create a new GitHub Tree: ">> \o message

\* Faults of the join: Promise.allSettled in place of Promise.all, and the
\* join not awaited.
allSettled(promises) == \A k \in 1..Len(promises) : promises[k] # "pending"
allFulfilledNoWait(promises) == TRUE

\* createGithubBlobs, line 125: Promise.all over the createBlob promises.
allFulfilled(promises) == \A k \in 1..Len(promises) : promises[k] = "fulfilled"
anyRejected(promises) == \E k \in 1..Len(promises) : promises[k] = "rejected"

(***************************************************************************)
(* GitHub and the file system, at the interface the program sees           *)
(***************************************************************************)
\* A rejection of an API call: an Error with a message, or a value that is
\* no Error at all.
ServerError == [isError |-> TRUE, message |-> "Server Error"]
AlreadyExists == [isError |-> TRUE, message |-> "Reference already exists"]
NotAnError == [isError |-> FALSE, message |-> "Server Error"]
RemoteFailures == {ServerError, NotAnError}

\* git.createRef: creates a reference that does not exist, reports one that does.
createRefOutcomes(refs, branch) ==
  (IF refs[branch] = NoRef THEN {[ok |-> TRUE, error |-> NoError]}
   ELSE {[ok |-> FALSE, error |-> AlreadyExists]})
  \cup { [ok |-> FALSE, error |-> e] : e \in RemoteFailures }

\* Whether commit a is commit b or one of its ancestors, among the commits
\* the runs created.
RECURSIVE IsAncestor(_, _, _)
IsAncestor(a, b, commits) ==
  \/ a = b
  \/ \E c \in commits :
       /\ c.sha = b
       /\ \E k \in 1..Len(c.parents) : IsAncestor(a, c.parents[k], commits)

\* git.updateRef: a reference that exists is moved; without force only
\* forward, to a descendant of the commit it points at.
updateRefAccepted(refs, commits, request) ==
  /\ refs[request.ref[2]] # NoRef
  /\ request.force \/ IsAncestor(refs[request.ref[2]], request.sha, commits)

\* A tree object is addressed by its content.
TreeId(entries) == <<"tree", entries>>

\* fs.promises.readFile of path.join(CONTEXT.PATH, file), base64-encoded: the
\* bytes the work tree holds at that path. path.join throws on undefined, and
\* a file that is not in the work tree cannot be read.
getBlobBase64Content(repo, file) ==
  IF file = Undefined THEN {[ok |-> FALSE, content |-> <<>>]}
  ELSE { [ok |-> TRUE, content |-> <<"base64", repo.workTree[k].sha>>] :
           k \in { j \in 1..Len(repo.workTree) : repo.workTree[j].path = file } }
       \cup {[ok |-> FALSE, content |-> <<>>]}

(***************************************************************************)
(* Initial states: CONTEXT = { TASK: {} } in every run, and an environment  *)
(***************************************************************************)
\* A checkout of commit c0, on branch main or detached (branch "HEAD"), with
\* the tree of c0 and the files of the work tree.
LocalRepos ==
  [branch : {"main", "HEAD"}, head : {"c0"}, headTree : HeadSnapshots,
   workTree : Snapshots, committed : {FALSE}, origin : {StandardOrigin},
   user : {NoUser}, email : {NoEmail}]

Inputs == [branch : {"", "main", "feat"}, commitMessage : {"msg"}]

\* The remote has branch main at the checked-out commit and may have branch
\* feat, at that commit or at another; or main has moved on since the checkout.
RefState(m, f) ==
  [b \in Branches |-> IF b = "main" THEN m ELSE IF b = "feat" THEN f ELSE NoRef]

RemoteRefStates ==
  { RefState("c0", f) : f \in {NoRef} \cup OldCommits } \cup { RefState("c1", NoRef) }

IdleRepo ==
  [branch |-> "main", head |-> "c0", headTree |-> <<>>, workTree |-> <<>>,
   committed |-> FALSE, origin |-> StandardOrigin, user |-> NoUser,
   email |-> NoEmail]
IdleInputs == [branch |-> "", commitMessage |-> "msg"]
NoTask == [lastCommitSha |-> "undefined", branch |-> "undefined", localCommit |-> Undefined]
NoRepo == [repo |-> Undefined, owner |-> Undefined, branch |-> "undefined",
           sha |-> "undefined"]

InitWith(active, repos, refStates) ==
  /\ runs = active
  /\ treeReads = [r \in RunIds |-> <<NoRead, NoRead>>]
  /\ localRepo \in { [r \in RunIds |-> IF r \in active THEN f[r] ELSE IdleRepo] :
                        f \in [active -> repos] }
  /\ INPUTS \in { [r \in RunIds |-> IF r \in active THEN f[r] ELSE IdleInputs] :
                     f \in [active -> Inputs] }
  /\ remoteRefs \in refStates
  /\ remoteCommits = {}
  /\ REPO = [r \in RunIds |-> NoRepo]
  /\ TASK = [r \in RunIds |-> NoTask]
  /\ pc = [r \in RunIds |-> "start"]
  /\ desiredTree = [r \in RunIds |-> <<>>]
  /\ previousTree = [r \in RunIds |-> <<>>]
  /\ tree = [r \in RunIds |-> <<>>]
  /\ idx = [r \in RunIds |-> 0]
  /\ promisesGithubCreateBlobs = [r \in RunIds |-> <<>>]
  /\ treeSha = [r \in RunIds |-> Undefined]
  /\ calls = [r \in RunIds |-> <<>>]
  /\ failure = [r \in RunIds |-> NoError]

Init == InitWith({1}, LocalRepos, RemoteRefStates)

(***************************************************************************)
(* The steps of a run; each is the code between two returns to the event   *)
(* loop                                                                    *)
(***************************************************************************)
Log(r, events) == calls' = [calls EXCEPT ![r] = @ \o events]

\* The catch of the main function (232-238): core.setFailed.
setFailed(r, at, message) ==
  /\ pc' = [pc EXCEPT ![r] = "failed"]
  /\ failure' = [failure EXCEPT ![r] = [at |-> at, message |-> message]]

\* Fault: the branch is created at the tip of the remote default branch.
createRefRequestAtMain(repo, branch) ==
  [sha |-> remoteRefs["main"], ref |-> <<"refs/heads/", branch>>]

\* createRemoteBranch, lines 44-52.
createRefRequest(repo, branch) ==
  [sha |-> repo.sha, ref |-> <<"refs/heads/", branch>>]

\* run, lines 197-198: the task of an addConfig call ends. The code does not
\* await these calls, so a task ends at any point at which the process has
\* not ended, in any order with the other git tasks and with one another.
\* When `git config` succeeds the value is written. When it fails the
\* rejection has no handler: the runtime ends the process, or it only warns
\* and then nothing changes. `unset` tells that the value is not written yet.
addConfigSettles(r, unset, written) ==
  /\ pc[r] # "crashed"
  /\ unset
  /\ \/ /\ localRepo' = [localRepo EXCEPT ![r] = written]
        /\ UNCHANGED <<pc, failure>>
     \/ /\ pc' = [pc EXCEPT ![r] = "crashed"]
        /\ failure' = [failure EXCEPT ![r] =
                         [at |-> "unhandledRejection",
                          message |-> <<"git config failed">>]]
        /\ UNCHANGED localRepo
  /\ UNCHANGED <<runs, treeReads, remoteRefs, remoteCommits, INPUTS, REPO, TASK,
                 desiredTree, previousTree, tree, idx, promisesGithubCreateBlobs,
                 treeSha, calls>>

\* run, line 197: addConfig('user.name', 'local_user', false, 'local').
addConfigUserName(r) ==
  /\ r \in runs
  /\ addConfigSettles(r, localRepo[r].user = NoUser,
                      [localRepo[r] EXCEPT !.user = LocalUser])

\* run, line 198: addConfig('user.email', 'local_user@example.com', false,
\* 'local').
addConfigUserEmail(r) ==
  /\ r \in runs
  /\ addConfigSettles(r, localRepo[r].email = NoEmail,
                      [localRepo[r] EXCEPT !.email = LocalEmail])

\* run, lines 181-200, and identifyRepository, line 12: `git rev-parse
\* --abbrev-ref HEAD` returns.
revparseAbbrevRef(r) ==
  /\ r \in runs
  /\ pc[r] = "start"
  /\ \/ /\ pc' = [pc EXCEPT ![r] = "revparseHead"]
        /\ UNCHANGED failure
     \/ setFailed(r, "revparse", <<"git rev-parse failed">>)
  /\ UNCHANGED <<runs, treeReads, localRepo, remoteRefs,
                 remoteCommits, INPUTS, REPO, TASK, desiredTree, previousTree,
                 tree, idx, promisesGithubCreateBlobs, treeSha, calls>>

\* identifyRepository, line 13: `git rev-parse HEAD` returns.
revparseHead(r) ==
  /\ r \in runs
  /\ pc[r] = "revparseHead"
  /\ \/ /\ pc' = [pc EXCEPT ![r] = "remote"]
        /\ UNCHANGED failure
     \/ setFailed(r, "revparse", <<"git rev-parse failed">>)
  /\ UNCHANGED <<runs, treeReads, localRepo, remoteRefs, remoteCommits, INPUTS,
                 REPO, TASK, desiredTree, previousTree, tree, idx,
                 promisesGithubCreateBlobs, treeSha, calls>>

\* identifyRepository, lines 14-28, and run, lines 200-201: `git remote
\* get-url origin` returns, CONTEXT.REPO is set and lastCommitSha seeded; the
\* status is asked for.
remoteGetUrl(r) ==
  /\ r \in runs
  /\ pc[r] = "remote"
  /\ \/ /\ REPO' = [REPO EXCEPT ![r] = identifyRepository(localRepo[r])]
        /\ TASK' = [TASK EXCEPT ![r].lastCommitSha =
                      initialLastCommitSha(identifyRepository(localRepo[r]))]
        /\ pc' = [pc EXCEPT ![r] = "status"]
        /\ UNCHANGED failure
     \/ /\ setFailed(r, "remote", <<"error: No such remote 'origin'">>)
        /\ UNCHANGED <<REPO, TASK>>
  /\ UNCHANGED <<runs, treeReads, localRepo, remoteRefs, remoteCommits, INPUTS,
                 desiredTree, previousTree, tree, idx, promisesGithubCreateBlobs,
                 treeSha, calls>>

\* run, lines 202-223: `git status` returns; the target branch, the clean
\* exit, then the createRef request when another branch is the target, the
\* helper commit otherwise.
run(r) ==
  /\ r \in runs
  /\ pc[r] = "status"
  /\ \/ LET repo == REPO[r]
            task == [TASK[r] EXCEPT !.branch = taskBranch(INPUTS[r], repo)]
        IN /\ TASK' = [TASK EXCEPT ![r] = task]
           /\ UNCHANGED failure
           /\ IF isClean(localRepo[r])
              THEN /\ pc' = [pc EXCEPT ![r] = "exited"]
                   /\ UNCHANGED calls
              ELSE IF useRemoteBranch(task, repo)
              THEN /\ pc' = [pc EXCEPT ![r] = "createRef"]
                   /\ Log(r, <<Event("createRef", "call",
                                     createRefRequest(repo, task.branch))>>)
              ELSE /\ pc' = [pc EXCEPT ![r] = "localCommit"]
                   /\ UNCHANGED calls
     \/ /\ setFailed(r, "status", <<"git status failed">>)
        /\ UNCHANGED <<TASK, calls>>
  /\ UNCHANGED <<runs, treeReads, localRepo, remoteRefs, remoteCommits, INPUTS,
                 REPO, desiredTree, previousTree, tree, idx,
                 promisesGithubCreateBlobs, treeSha>>

\* createRemoteBranch, lines 46-61, and run, line 223: createRef returns.
createRemoteBranch(r) ==
  /\ r \in runs
  /\ pc[r] = "createRef"
  /\ \E res \in createRefOutcomes(remoteRefs, TASK[r].branch) :
       /\ remoteRefs' = IF res.ok
                        THEN [remoteRefs EXCEPT ![TASK[r].branch] =
                                Issued(r, "createRef")[1].arg.sha]
                        ELSE remoteRefs
       /\ Log(r, <<Event("createRef", IF res.ok THEN "ok" ELSE "err", res.error)>>)
       /\ IF ~res.ok /\ rethrowsCreateRefError(res.error)
          THEN setFailed(r, "createRef", <<res.error.message>>)
          ELSE /\ pc' = [pc EXCEPT ![r] = "localCommit"]
               /\ UNCHANGED failure
  /\ UNCHANGED <<runs, treeReads, localRepo, remoteCommits, INPUTS, REPO, TASK,
                 desiredTree, previousTree, tree, idx, promisesGithubCreateBlobs,
                 treeSha>>

\* run, lines 223-225, and createGithubVerifiedCommit, line 168: `git add`
\* and `git commit` return. When they fail there is no helper commit.
localCommit(r) ==
  /\ r \in runs
  /\ pc[r] = "localCommit"
  /\ \/ /\ localRepo' = [localRepo EXCEPT ![r].committed = TRUE]
        /\ TASK' = [TASK EXCEPT ![r].localCommit =
                      replaceFirst(commitSummary(localRepo[r]), HeadPrefix)]
        /\ Log(r, <<Event("localCommit", "ok", commitSummary(localRepo[r]))>>)
        /\ pc' = [pc EXCEPT ![r] = "getDesiredTree"]
        /\ UNCHANGED failure
     \/ /\ setFailed(r, "localCommit", <<"git add failed">>)
        /\ UNCHANGED <<localRepo, TASK, calls>>
  /\ UNCHANGED <<runs, treeReads, remoteRefs, remoteCommits, INPUTS, REPO,
                 desiredTree, previousTree, tree, idx, promisesGithubCreateBlobs,
                 treeSha>>

\* createGithubVerifiedCommit, lines 168-171, and createGithubBlobs, line
\* 101: the tree of the helper commit is read; then both reads of
\* createGithubBlobs are started.
getDesiredTree(r) ==
  /\ r \in runs
  /\ pc[r] = "getDesiredTree"
  /\ \E res \in gitRawLsTree(localRepo[r], TASK[r].localCommit) :
       IF res.ok
       THEN /\ desiredTree' = [desiredTree EXCEPT ![r] = getTree(res.output)]
            /\ treeReads' = [treeReads EXCEPT ![r] = <<Reading, Reading>>]
            /\ Log(r, <<Event("getTree", "ok", TASK[r].localCommit)>>)
            /\ pc' = [pc EXCEPT ![r] = "getTrees"]
            /\ UNCHANGED failure
       ELSE /\ Log(r, <<Event("getTree", "err", TASK[r].localCommit)>>)
            /\ setFailed(r, "getTree", <<"git ls-tree failed">>)
            /\ UNCHANGED <<desiredTree, treeReads>>
  /\ UNCHANGED <<runs, localRepo, remoteRefs, remoteCommits, INPUTS, REPO, TASK,
                 previousTree, tree, idx, promisesGithubCreateBlobs, treeSha>>

\* Fault: only the entries that were uploaded are handed to createTree.
createTreeRequestDiffed(r) ==
  [tree |-> SelectSeq(desiredTree[r],
                      LAMBDA e : \A k \in 1..Len(previousTree[r]) :
                                    previousTree[r][k].sha # e.sha)]

\* createGithubVerifiedCommit, lines 168 and 173, and createGithubTreeAndCommit,
\* lines 133-137: the tree handed to createTree.
createTreeRequest(r) == [tree |-> desiredTree[r]]

\* createGithubBlobs, line 125, and createGithubTreeAndCommit, lines 133-137:
\* Promise.all over `promises`, in the step that recorded `events`. It
\* rejects as soon as one promise has rejected; when all are fulfilled the
\* run goes on to the createTree request in the same turn; otherwise the run
\* waits at line 125.
joinCreateBlobs(r, promises, events) ==
  \/ /\ anyRejected(promises)
     /\ Log(r, events)
     /\ setFailed(r, "createBlob", <<ServerError.message>>)
  \/ /\ allFulfilled(promises)
     /\ Log(r, events \o <<Event("createTree", "call", createTreeRequest(r))>>)
     /\ pc' = [pc EXCEPT ![r] = "createTree"]
     /\ UNCHANGED failure
  \/ /\ ~anyRejected(promises) /\ ~allFulfilled(promises)
     /\ Log(r, events)
     /\ pc' = [pc EXCEPT ![r] = "join"]
     /\ UNCHANGED failure

\* createGithubBlobs, lines 104-108: from position i of `tr`, the first entry
\* that is not found in the previous tree; Len(tr) + 1 when there is none.
RECURSIVE nextUpload(_, _, _)
nextUpload(prev, tr, i) ==
  IF i > Len(tr) \/ ~inPreviousTree(prev, tr[i]) THEN i
  ELSE nextUpload(prev, tr, i + 1)

\* createGithubBlobs, lines 104-125: the loop comes to position `next` of the
\* tree in the step that recorded `events`. Past the end of the tree it is
\* the join. At an entry without a path, path.join (line 92) throws before
\* any file is read, so the await of line 110 rejects in the same turn. At
\* any other entry the run waits for the file to be read.
resumeLoop(r, tr, next, promises, events) ==
  IF next > Len(tr)
  THEN joinCreateBlobs(r, promises, events)
  ELSE IF tr[next].path = Undefined
  THEN /\ Log(r, events \o <<Event("readFile", "err", tr[next].path)>>)
       /\ setFailed(r, "readFile", <<"cannot read file">>)
  ELSE /\ Log(r, events)
       /\ pc' = [pc EXCEPT ![r] = "blobLoop"]
       /\ UNCHANGED failure

\* createGithubBlobs, lines 101-110 and 125: one of the two reads returns.
\* Promise.all rejects on the first read that fails, while the other read is
\* still running and returns later. When both have succeeded the loop starts
\* and runs to the first file it has to read, to an entry without a path, or,
\* when there is neither, to the join.
getTrees(r) ==
  /\ r \in runs
  /\ pc[r] # "crashed"
  /\ \E which \in 1..2 :
       /\ treeReads[r][which].state = "pending"
       /\ LET ref == IF which = 1 THEN TASK[r].localCommit \o <<"~", "1">>
                     ELSE TASK[r].localCommit
          IN \E res \in gitRawLsTree(localRepo[r], ref) :
               LET reads == [treeReads[r] EXCEPT ![which] = readResult(res)]
                   event == <<Event("getTree", IF res.ok THEN "ok" ELSE "err", ref)>>
                   prevT == getTree(reads[1].output)
                   curT == getTree(reads[2].output)
                   first == nextUpload(prevT, curT, 1)
               IN /\ treeReads' = [treeReads EXCEPT ![r] = reads]
                  /\ IF pc[r] # "getTrees"
                     THEN /\ Log(r, event)
                          /\ UNCHANGED <<pc, failure, previousTree, tree, idx>>
                     ELSE IF treesRead(reads[1], reads[2])
                     THEN /\ previousTree' = [previousTree EXCEPT ![r] = prevT]
                          /\ tree' = [tree EXCEPT ![r] = curT]
                          /\ idx' = [idx EXCEPT ![r] = first]
                          /\ resumeLoop(r, curT, first, <<>>, event)
                     ELSE IF treeReadRejected(reads[1], reads[2])
                     THEN /\ Log(r, event)
                          /\ setFailed(r, "getTree", <<"git ls-tree failed">>)
                          /\ UNCHANGED <<previousTree, tree, idx>>
                     ELSE /\ Log(r, event)
                          /\ UNCHANGED <<pc, failure, previousTree, tree, idx>>
  /\ UNCHANGED <<runs, localRepo, remoteRefs, remoteCommits, INPUTS, REPO, TASK,
                 desiredTree, promisesGithubCreateBlobs, treeSha>>

\* createGithubBlobs, lines 104-125: the read of the file of tree[idx]
\* (line 110) returns. Its createBlob request is sent and its promise kept,
\* unawaited; the loop goes on over the entries found in the previous tree
\* to the next file it has to read, to an entry without a path, or, at the
\* end of the tree, to the join.
createGithubBlobs(r) ==
  /\ r \in runs
  /\ pc[r] = "blobLoop"
  /\ LET treeEntry == tree[r][idx[r]]
         next == nextUpload(previousTree[r], tree[r], idx[r] + 1)
     IN \E read \in getBlobBase64Content(localRepo[r], treeEntry.path) :
          IF read.ok
          THEN LET promises == Append(promisesGithubCreateBlobs[r], "pending")
                   event == <<Event("createBlob", "call",
                                    [k |-> Len(promises),
                                     path |-> treeEntry.path,
                                     content |-> read.content,
                                     encoding |-> "base64"])>>
               IN /\ promisesGithubCreateBlobs' =
                       [promisesGithubCreateBlobs EXCEPT ![r] = promises]
                  /\ idx' = [idx EXCEPT ![r] = next]
                  /\ resumeLoop(r, tree[r], next, promises, event)
          ELSE /\ Log(r, <<Event("readFile", "err", treeEntry.path)>>)
               /\ setFailed(r, "readFile", <<"cannot read file">>)
               /\ UNCHANGED <<idx, promisesGithubCreateBlobs>>
  /\ UNCHANGED <<runs, treeReads, localRepo, remoteRefs, remoteCommits, INPUTS,
                 REPO, TASK, desiredTree, previousTree, tree, treeSha>>

\* The run waits at Promise.all (line 125).
awaitingBlobs(r) == pc[r] = "join"

\* Promise.all (line 125) has been called: it gave every createBlob promise
\* its handler, which the promises keep after Promise.all has rejected.
promiseAllCalled(r) == pc[r] = "join" \/ failure[r].at = "createBlob"

\* createGithubBlobs, lines 113-125: one createBlob request settles. While
\* the run waits at Promise.all the join is decided in the same turn. A
\* rejection of a promise that Promise.all has not taken is unhandled: the
\* runtime ends the process or only warns, depending on its version and
\* flags.
createBlobSettles(r) ==
  /\ r \in runs
  /\ \E k \in 1..Len(promisesGithubCreateBlobs[r]) :
       /\ uploadOutstanding(pc[r], promisesGithubCreateBlobs[r][k])
       /\ \E outcome \in {"fulfilled", "rejected"} :
            LET promises == [promisesGithubCreateBlobs[r] EXCEPT ![k] = outcome]
                event == <<Event("createBlob",
                                 IF outcome = "fulfilled" THEN "ok" ELSE "err", k)>>
            IN /\ promisesGithubCreateBlobs' =
                    [promisesGithubCreateBlobs EXCEPT ![r] = promises]
               /\ IF awaitingBlobs(r)
                  THEN joinCreateBlobs(r, promises, event)
                  ELSE /\ Log(r, event)
                       /\ \/ UNCHANGED <<pc, failure>>
                          \/ /\ outcome = "rejected"
                             /\ ~promiseAllCalled(r)
                             /\ pc' = [pc EXCEPT ![r] = "crashed"]
                             /\ failure' = [failure EXCEPT ![r] =
                                              [at |-> "unhandledRejection",
                                               message |-> <<ServerError.message>>]]
  /\ UNCHANGED <<runs, treeReads, localRepo, remoteRefs, remoteCommits, INPUTS,
                 REPO, TASK, desiredTree, previousTree, tree, idx, treeSha>>

\* createGithubTreeAndCommit, lines 138-151: createTree returns; on success
\* the createCommit request follows.
createTreeReturns(r) ==
  /\ r \in runs
  /\ pc[r] = "createTree"
  /\ LET sent == Issued(r, "createTree")[1].arg.tree
     IN \/ /\ treeSha' = [treeSha EXCEPT ![r] = TreeId(sent)]
           /\ Log(r, <<Event("createTree", "ok", TreeId(sent)),
                       Event("createCommit", "call",
                             [message |-> INPUTS[r].commitMessage,
                              parents |-> commitParents(TASK[r]),
                              tree |-> TreeId(sent)])>>)
           /\ pc' = [pc EXCEPT ![r] = "createCommit"]
           /\ UNCHANGED failure
        \/ /\ Log(r, <<Event("createTree", "err", ServerError)>>)
           /\ setFailed(r, "createTree", treeErrorMessage(<<ServerError.message>>))
           /\ UNCHANGED treeSha
  /\ UNCHANGED <<runs, treeReads, localRepo, remoteRefs, remoteCommits, INPUTS, REPO, TASK,
                 desiredTree, previousTree, tree, idx, promisesGithubCreateBlobs>>

\* createGithubTreeAndCommit, line 152, and updateGithubRef, lines 155-163:
\* createCommit returns; on success the updateRef request follows.
createCommitReturns(r) ==
  /\ r \in runs
  /\ pc[r] = "createCommit"
  /\ LET sent == Issued(r, "createCommit")[1].arg
         sha == NewCommitSha(r)
         data == [sha |-> sha, tree |-> sent.tree, parents |-> sent.parents]
     IN \/ /\ remoteCommits' = remoteCommits \cup
                 {[sha |-> sha, parents |-> sent.parents, tree |-> sent.tree,
                   message |-> sent.message]}
           /\ TASK' = [TASK EXCEPT ![r] = taskAfterCreateCommit(@, data)]
           /\ Log(r, <<Event("createCommit", "ok", sha),
                       Event("updateRef", "call",
                             updateRefRequest(taskAfterCreateCommit(TASK[r], data)))>>)
           /\ pc' = [pc EXCEPT ![r] = "updateRef"]
           /\ UNCHANGED failure
        \/ /\ Log(r, <<Event("createCommit", "err", ServerError)>>)
           /\ setFailed(r, "createCommit", <<ServerError.message>>)
           /\ UNCHANGED <<remoteCommits, TASK>>
  /\ UNCHANGED <<runs, treeReads, localRepo, remoteRefs, INPUTS, REPO, desiredTree,
                 previousTree, tree, idx, promisesGithubCreateBlobs, treeSha>>

\* createGithubVerifiedCommit, lines 175-177, and run, line 229: updateRef
\* returns. With force, GitHub moves a reference that exists whatever it
\* pointed at.
updateRefReturns(r) ==
  /\ r \in runs
  /\ pc[r] = "updateRef"
  /\ LET sent == Issued(r, "updateRef")[1].arg
         branch == sent.ref[2]
     IN \/ /\ updateRefAccepted(remoteRefs, remoteCommits, sent)
           /\ remoteRefs' = [remoteRefs EXCEPT ![branch] = sent.sha]
           /\ Log(r, <<Event("updateRef", "ok", sent.sha)>>)
           /\ pc' = [pc EXCEPT ![r] = "completed"]
           /\ UNCHANGED failure
        \/ /\ Log(r, <<Event("updateRef", "err", ServerError)>>)
           /\ setFailed(r, "updateRef", <<ServerError.message>>)
           /\ UNCHANGED remoteRefs
  /\ UNCHANGED <<runs, treeReads, localRepo, remoteCommits, INPUTS, REPO, TASK, desiredTree,
                 previousTree, tree, idx, promisesGithubCreateBlobs, treeSha>>

Next ==
  \E r \in RunIds :
    \/ addConfigUserName(r)
    \/ addConfigUserEmail(r)
    \/ revparseAbbrevRef(r)
    \/ revparseHead(r)
    \/ remoteGetUrl(r)
    \/ run(r)
    \/ createRemoteBranch(r)
    \/ localCommit(r)
    \/ getDesiredTree(r)
    \/ getTrees(r)
    \/ createGithubBlobs(r)
    \/ createBlobSettles(r)
    \/ createTreeReturns(r)
    \/ createCommitReturns(r)
    \/ updateRefReturns(r)

Spec == Init /\ [][Next]_vars

\* Two runs of the action against the same remote, each in its own checkout
\* of c0 (one file kept, one file new), on main or on feat.
PairRepo ==
  [branch |-> "main", head |-> "c0",
   headTree |-> SnapshotFrom(<<1, 0>>, 1), workTree |-> SnapshotFrom(<<1, 2>>, 1),
   committed |-> FALSE, origin |-> StandardOrigin, user |-> NoUser,
   email |-> NoEmail]

InitPair ==
  /\ InitWith(RunIds, {PairRepo},
              { refs \in RemoteRefStates : refs["main"] = "c0" /\ refs["feat"] # "c0" })
  /\ INPUTS[1] = INPUTS[2]
  /\ INPUTS[1].branch \in {"", "feat"}

SpecPair == InitPair /\ [][Next]_vars

\* One run in a checkout whose origin remote has any of the URL forms.
OriginRepos ==
  { [PairRepo EXCEPT !.origin = u, !.branch = b] :
      u \in OriginUrls, b \in {"main", "HEAD"} }

InitOrigin == InitWith({1}, OriginRepos, RemoteRefStates)

SpecOrigin == InitOrigin /\ [][Next]_vars

(***************************************************************************)
(* What is observed of a run                                               *)
(***************************************************************************)
\* The position in the record of run r of the first event of that kind; 0 if none.
Pos(r, op, ph) ==
  IF \E k \in 1..Len(calls[r]) : calls[r][k].op = op /\ calls[r][k].ph = ph
  THEN CHOOSE k \in 1..Len(calls[r]) :
         /\ calls[r][k].op = op /\ calls[r][k].ph = ph
         /\ \A h \in 1..(k - 1) : ~(calls[r][h].op = op /\ calls[r][h].ph = ph)
  ELSE 0

Happened(r, op, ph) == Pos(r, op, ph) > 0

\* identifyRepository has returned (line 200): CONTEXT.REPO is set.
identified(r) == REPO[r] # NoRepo

\* `git status` has returned and the target branch is set (line 204).
statusTaken(r) == TASK[r].branch # NoTask.branch

\* An upload of run r has failed: a createBlob rejected or a file was not read.
uploadFailed(r) == Happened(r, "createBlob", "err") \/ Happened(r, "readFile", "err")

\* The work tree differs from the checked-out commit.
dirty(r) == localRepo[r].workTree # localRepo[r].headTree

\* The target branch of run r, from its inputs and its checkout.
targetBranch(r) ==
  IF INPUTS[r].branch # "" THEN INPUTS[r].branch ELSE localRepo[r].branch

\* Blob differ, from the snapshots of the local object store: the entries of
\* T whose content no entry of P has.
UploadTasks(P, T) ==
  SelectSeq(T, LAMBDA e : e.sha \notin { P[k].sha : k \in 1..Len(P) })

\* The uploads of run r, as (path, contentId), in the order they were sent.
uploadsSent(r) ==
  LET sent == Issued(r, "createBlob")
  IN [k \in 1..Len(sent) |-> [path |-> sent[k].arg.path, sha |-> sent[k].arg.content[2]]]

uploadsDue(r) ==
  LET due == UploadTasks(localRepo[r].headTree, localRepo[r].workTree)
  IN [k \in 1..Len(due) |-> [path |-> due[k].path, sha |-> due[k].sha]]

IsPrefix(a, b) == Len(a) <= Len(b) /\ SubSeq(b, 1, Len(a)) = a

\* The loop of createGithubBlobs has gone through the whole tree.
loopDone(r) == idx[r] > Len(tree[r])

(***************************************************************************)
(* Claims                                                                  *)
(***************************************************************************)
\* C1: if a blob upload of a run fails (createBlob rejects, or the file is not
\* read), the run issues no createTree, no createCommit and no updateRef, and
\* it ends in failure: it is failed, or its process has ended on the unhandled
\* rejection, or it is still in createGithubBlobs and can go on.
C1_NoPartialCommit ==
  \A r \in runs :
    uploadFailed(r) =>
      /\ Issued(r, "createTree") = <<>>
      /\ Issued(r, "createCommit") = <<>>
      /\ Issued(r, "updateRef") = <<>>
      /\ pc[r] \in {"blobLoop", "failed", "crashed"}
      /\ pc[r] = "blobLoop" => ENABLED createGithubBlobs(r)

\* A createBlob rejected among several sent, and the run failed at the join.
C1_Witness ==
  \E r \in runs :
    /\ anyRejected(promisesGithubCreateBlobs[r])
    /\ Len(promisesGithubCreateBlobs[r]) = 2
    /\ pc[r] = "failed" /\ failure[r].at = "createBlob"

\* C2: the tree createTree receives is the whole target snapshot of the
\* replicated commit, entry for entry (mode, type, contentId, path) and in
\* order, also when nothing had to be uploaded.
C2_TreeIsTargetSnapshot ==
  \A r \in runs :
    \A k \in 1..Len(Issued(r, "createTree")) :
      Issued(r, "createTree")[k].arg.tree = localRepo[r].workTree

\* createTree was called for a two-entry snapshot with no upload sent.
C2_Witness ==
  \E r \in runs :
    /\ Issued(r, "createTree") # <<>>
    /\ Issued(r, "createBlob") = <<>>
    /\ Len(localRepo[r].workTree) = 2

\* C3: the uploads sent are, in the order of T, the entries of T whose
\* contentId no entry of P has, whatever their paths: always a prefix of that
\* sequence, and all of it once the loop is through.
C3_UploadsAreTheDiff ==
  \A r \in runs :
    /\ IsPrefix(uploadsSent(r), uploadsDue(r))
    /\ (pc[r] \notin {"start", "exited"} /\ tree[r] # <<>> /\ loopDone(r))
         => uploadsSent(r) = uploadsDue(r)

\* The loop is through; one entry was uploaded and another, at a path the
\* parent does not have, was skipped because the parent has its content.
C3_Witness ==
  \E r \in runs :
    /\ tree[r] # <<>> /\ loopDone(r)
    /\ Len(uploadsSent(r)) = 1
    /\ \E k \in 1..Len(localRepo[r].workTree) :
         LET e == localRepo[r].workTree[k]
         IN /\ \A j \in 1..Len(localRepo[r].headTree) :
                 localRepo[r].headTree[j].path # e.path
            /\ \E j \in 1..Len(localRepo[r].headTree) :
                 localRepo[r].headTree[j].sha = e.sha

\* C4: a createCommit request carries exactly one parent, the value
\* CONTEXT.TASK.lastCommitSha has when the request is made; that is still its
\* value when the commit is created and lastCommitSha overwritten.
C4_ParentLinkage ==
  [][ \A r \in RunIds :
        /\ Len(Issued(r, "createCommit")') > Len(Issued(r, "createCommit")) =>
             LET sent == Issued(r, "createCommit")'[1].arg
             IN /\ Len(sent.parents) = 1
                /\ sent.parents[1] = TASK[r].lastCommitSha
                /\ Len(Issued(r, "createCommit")') = 1
        /\ TASK'[r].lastCommitSha # TASK[r].lastCommitSha /\ pc[r] # "remote" =>
             /\ Issued(r, "createCommit")[1].arg.parents = <<TASK[r].lastCommitSha>>
             /\ \E c \in remoteCommits' \ remoteCommits :
                  /\ c.sha = TASK'[r].lastCommitSha
                  /\ c.parents = <<TASK[r].lastCommitSha>> ]_vars

\* The commit was created and the run completed.
C4_Witness ==
  \E r \in runs :
    /\ pc[r] = "completed"
    /\ Happened(r, "createCommit", "ok")
    /\ TASK[r].lastCommitSha = NewCommitSha(r)

\* C5, as the specification states it: the parent of the new remote commit is
\* the commit the remote target branch points at just before the ref update.
C5_ParentIsRemoteTip ==
  \A r \in runs :
    pc[r] = "updateRef" =>
      Issued(r, "createCommit")[1].arg.parents = <<remoteRefs[TASK[r].branch]>>

\* C5, amended: CONTEXT.TASK.lastCommitSha is seeded with the commit checked
\* out locally (git rev-parse HEAD before the helper commit), and that commit
\* is the one parent of the new remote commit, whatever the remote target
\* branch points at.
C5_ParentIsCheckedOutCommit ==
  \A r \in runs :
    /\ (identified(r) /\ ~Happened(r, "createCommit", "ok"))
         => TASK[r].lastCommitSha = localRepo[r].head
    /\ \A k \in 1..Len(Issued(r, "createCommit")) :
         Issued(r, "createCommit")[k].arg.parents = <<localRepo[r].head>>

\* The target branch is not the checked-out one and exists remotely at another
\* commit; the new commit has been created and the ref update is under way.
C5_Witness ==
  \E r \in runs :
    /\ pc[r] = "updateRef"
    /\ TASK[r].branch # REPO[r].branch
    /\ remoteRefs[TASK[r].branch] \notin {NoRef, localRepo[r].head}
    /\ Issued(r, "createCommit")[1].arg.parents = <<localRepo[r].head>>

\* C6, as the specification states it: with a clean work tree the run ends
\* successfully having done nothing: no call of any kind, no helper commit,
\* no error.
C6_CleanNoOp ==
  \A r \in runs :
    (statusTaken(r) /\ ~dirty(r)) =>
      /\ pc[r] = "exited"
      /\ calls[r] = <<>>
      /\ ~localRepo[r].committed
      /\ TASK[r].localCommit = Undefined
      /\ failure[r] = NoError
      /\ remoteCommits = {}

\* C7: in a run over a work tree with changes, createRef is requested once if
\* the target branch (the input, or the checked-out branch for an empty input)
\* is not the checked-out branch, and never otherwise; its answer comes
\* before the helper commit, any tree read and any other request. While the
\* answer is out the run waits for it, unless its process has ended.
C7_BranchEnsurerWhenNeeded ==
  \A r \in runs :
    (statusTaken(r) /\ dirty(r)) =>
      /\ Len(Issued(r, "createRef")) =
           (IF targetBranch(r) # localRepo[r].branch THEN 1 ELSE 0)
      /\ Issued(r, "createRef") # <<>> =>
           /\ calls[r][1] = Event("createRef", "call",
                                  [sha |-> localRepo[r].head,
                                   ref |-> <<"refs/heads/", targetBranch(r)>>])
           /\ Len(calls[r]) >= 2 =>
                calls[r][2].op = "createRef" /\ calls[r][2].ph \in {"ok", "err"}
           /\ \A k \in 3..Len(calls[r]) : calls[r][k].op # "createRef"
           /\ pc[r] = "createRef" => Len(calls[r]) = 1
           /\ Len(calls[r]) = 1 => pc[r] \in {"createRef", "crashed"}

\* A run to another branch has completed: createRef, then an upload.
C7_Witness ==
  \E r \in runs :
    /\ pc[r] = "completed"
    /\ Len(Issued(r, "createRef")) = 1
    /\ Happened(r, "createBlob", "ok")
    /\ Pos(r, "createRef", "ok") < Pos(r, "getTree", "ok")

\* A record of calls without what tells a created branch from one that
\* existed, without the identifiers of the new commit, and without the tree
\* reads, two of which return in any order.
ShapeOf(r) ==
  [k \in 1..Len(SelectSeq(calls[r], LAMBDA c : c.op # "getTree")) |->
     LET e == SelectSeq(calls[r], LAMBDA c : c.op # "getTree")[k]
     IN IF e.op = "createRef" /\ e.ph # "call" THEN <<"createRef", "returned">>
        ELSE IF e.op \in {"updateRef"} \/ (e.op = "createCommit" /\ e.ph = "ok")
        THEN <<e.op, e.ph>>
        ELSE <<e.op, e.ph, e.arg>>]

\* createRef answered run r with a creation or with "Reference already exists".
ensured(r) ==
  \E k \in 1..Len(calls[r]) :
    /\ calls[r][k].op = "createRef"
    /\ \/ calls[r][k].ph = "ok"
       \/ calls[r][k].ph = "err" /\ calls[r][k].arg = AlreadyExists

\* C8: a createRef answered "Reference already exists" is no failure: the
\* branch ensurer returns and the helper commit comes next, as after a
\* creation. Of two runs ensuring the same branch from the same base neither
\* fails in the ensurer, and when both complete from equal inputs the one
\* that found the branch has made the same calls as the one that created it.
C8_IdempotentBranchCreation ==
  /\ \A r \in runs :
       ensured(r) =>
         /\ failure[r].at # "createRef"
         /\ pc[r] # "createRef"
         /\ Len(calls[r]) >= 3 => calls[r][3].op = "localCommit"
  /\ \A r1, r2 \in runs :
       (/\ r1 # r2
        /\ ensured(r1) /\ ensured(r2)
        /\ calls[r1][1] = calls[r2][1]) =>
         /\ ~(Happened(r1, "createRef", "ok") /\ Happened(r2, "createRef", "ok"))
         /\ (pc[r1] = "completed" /\ pc[r2] = "completed" /\ INPUTS[r1] = INPUTS[r2])
              => ShapeOf(r1) = ShapeOf(r2)

\* Two runs ensured the same branch from the same base, the first created it,
\* the second found it, and both completed.
C8_Witness ==
  \E r1, r2 \in runs :
    /\ r1 # r2
    /\ calls[r1] # <<>> /\ calls[r2] # <<>>
    /\ calls[r1][1] = calls[r2][1]
    /\ Happened(r1, "createRef", "ok")
    /\ Happened(r2, "createRef", "err") /\ ensured(r2)
    /\ pc[r1] = "completed" /\ pc[r2] = "completed"

\* C9, as the specification states it: a createRef failure that is not
\* "Reference already exists" fails the run in the ensurer with that error;
\* no helper commit is made and nothing more is requested.
C9_OtherFailuresPropagate ==
  \A r \in runs :
    \A k \in 1..Len(calls[r]) :
      (calls[r][k].op = "createRef" /\ calls[r][k].ph = "err"
         /\ calls[r][k].arg # AlreadyExists) =>
        /\ pc[r] = "failed"
        /\ failure[r] = [at |-> "createRef", message |-> <<calls[r][k].arg.message>>]
        /\ ~localRepo[r].committed
        /\ Len(calls[r]) = k

\* C10: createTree is requested after every createBlob sent has succeeded;
\* createCommit after createTree returned the tree id it then uses;
\* updateRef after createCommit returned the commit id it then uses.
C10_CallOrder ==
  \A r \in runs :
    /\ Happened(r, "createTree", "call") =>
         \A i \in 1..Len(calls[r]) :
           (calls[r][i].op = "createBlob" /\ calls[r][i].ph = "call") =>
             /\ i < Pos(r, "createTree", "call")
             /\ \E j \in (i + 1)..(Pos(r, "createTree", "call") - 1) :
                  calls[r][j] = Event("createBlob", "ok", calls[r][i].arg.k)
    /\ Happened(r, "createCommit", "call") =>
         LET t == Pos(r, "createTree", "ok")
         IN /\ 0 < t /\ t < Pos(r, "createCommit", "call")
            /\ Issued(r, "createCommit")[1].arg.tree = calls[r][t].arg
            /\ calls[r][t].arg = TreeId(Issued(r, "createTree")[1].arg.tree)
    /\ Happened(r, "updateRef", "call") =>
         LET c == Pos(r, "createCommit", "ok")
         IN /\ 0 < c /\ c < Pos(r, "updateRef", "call")
            /\ Issued(r, "updateRef")[1].arg.sha = calls[r][c].arg

\* A run with two uploads has completed.
C10_Witness ==
  \E r \in runs :
    /\ pc[r] = "completed"
    /\ Len(CallsOf(r, "createBlob", "ok")) = 2

\* The remote operations of a run and its reads of a tree.
RemoteOps == {"createRef", "createBlob", "createTree", "createCommit", "updateRef"}

\* C11: a run that completed has left exactly one commit in the remote:
\* createTree, createCommit and updateRef were each issued exactly once, and
\* the one updateRef was sent with force, for heads/<target branch>, with the
\* id createCommit returned; that commit's tree is the id createTree
\* returned, the tree of the target snapshot.
C11_ExactlyOneRemoteCommit ==
  \A r \in runs :
    pc[r] = "completed" =>
      /\ Len(Issued(r, "createTree")) = 1
      /\ Len(Issued(r, "createCommit")) = 1
      /\ Len(Issued(r, "updateRef")) = 1
      /\ Len(CallsOf(r, "createTree", "ok")) = 1
      /\ Len(CallsOf(r, "createCommit", "ok")) = 1
      /\ LET update == Issued(r, "updateRef")[1].arg
             commitId == CallsOf(r, "createCommit", "ok")[1].arg
             treeId == CallsOf(r, "createTree", "ok")[1].arg
         IN /\ update.force = TRUE
            /\ update.ref = <<"heads/", targetBranch(r)>>
            /\ update.sha = commitId
            /\ Cardinality({ c \in remoteCommits : c.sha = commitId }) = 1
            /\ \A c \in remoteCommits : c.sha = commitId => c.tree = treeId
            /\ treeId = TreeId(localRepo[r].workTree)
            /\ remoteRefs[targetBranch(r)] = commitId

\* A run with one file uploaded and one kept has completed on another branch.
C11_Witness ==
  \E r \in runs :
    /\ pc[r] = "completed"
    /\ targetBranch(r) = "feat"
    /\ Len(Issued(r, "createBlob")) = 1
    /\ Len(localRepo[r].workTree) = 2

\* C12: no step is retried and every failure aborts the run: createRef,
\* createTree, createCommit and updateRef are issued at most once, every
\* upload's createBlob at most once; once a remote call or a tree read has
\* failed (createRef's "Reference already exists" is no failure) no remote
\* call is issued any more, and the run, when it has ended, is in the failed
\* state that setFailed reports.
C12_EveryFailureAborts ==
  \A r \in runs :
    /\ \A op \in RemoteOps \ {"createBlob"} : Len(Issued(r, op)) <= 1
    /\ \A i, j \in 1..Len(Issued(r, "createBlob")) :
         Issued(r, "createBlob")[i].arg.path = Issued(r, "createBlob")[j].arg.path
           => i = j
    /\ \A k \in 1..Len(calls[r]) :
         (/\ calls[r][k].ph = "err"
          /\ calls[r][k].op \in RemoteOps \cup {"getTree"}
          /\ ~(calls[r][k].op = "createRef" /\ calls[r][k].arg = AlreadyExists)) =>
           /\ \A h \in (k + 1)..Len(calls[r]) : calls[r][h].ph # "call"
           /\ Terminated(r) => pc[r] = "failed"

\* C13: updateRef moves the branch wherever it points. A run whose updateRef
\* is out can complete whenever the branch exists, whatever its tip is; and
\* when two runs on the same branch have both completed, the branch is at
\* the commit of one of them, the commit of the other is not among its
\* ancestors, and no run has reported a failure.
C13_BlindForceWrite ==
  /\ \A r \in runs :
       (pc[r] = "updateRef" /\ remoteRefs[TASK[r].branch] # NoRef) =>
         ENABLED (updateRefReturns(r) /\ pc'[r] = "completed")
  /\ \A r, q \in runs :
       (r # q /\ pc[r] = "completed" /\ pc[q] = "completed"
          /\ TASK[r].branch = TASK[q].branch) =>
         /\ remoteRefs[TASK[r].branch] \in {TASK[r].lastCommitSha, TASK[q].lastCommitSha}
         /\ ~IsAncestor(TASK[r].lastCommitSha, TASK[q].lastCommitSha, remoteCommits)
         /\ failure[r] = NoError /\ failure[q] = NoError

\* Two runs have completed on the same branch; the branch is at the commit
\* of the second and the commit of the first is lost from its history.
C13_Witness ==
  /\ pc[1] = "completed" /\ pc[2] = "completed"
  /\ TASK[1].branch = TASK[2].branch
  /\ remoteRefs[TASK[1].branch] = TASK[2].lastCommitSha
  /\ TASK[1].lastCommitSha # TASK[2].lastCommitSha
  /\ ~IsAncestor(TASK[1].lastCommitSha, remoteRefs[TASK[1].branch], remoteCommits)
  /\ failure[1] = NoError /\ failure[2] = NoError

\* C14: a createTree failure is reported as "Cannot create a new GitHub
\* Tree: <message>" and no createCommit is issued; a createCommit failure is
\* reported with its own message; in both cases lastCommitSha still holds the
\* value it was seeded with and no updateRef is issued.
C14_TreeAndCommitFailures ==
  \A r \in runs :
    /\ failure[r].at = "createTree" =>
         /\ failure[r].message =
              <<"Cannot create a new GitHub Tree: ",
                CallsOf(r, "createTree", "err")[1].arg.message>>
         /\ Issued(r, "createCommit") = <<>>
    /\ failure[r].at = "createCommit" =>
         failure[r].message = <<CallsOf(r, "createCommit", "err")[1].arg.message>>
    /\ failure[r].at \in {"createTree", "createCommit"} =>
         /\ pc[r] = "failed"
         /\ TASK[r].lastCommitSha = localRepo[r].head
         /\ Issued(r, "updateRef") = <<>>
         /\ remoteRefs[targetBranch(r)] # NewCommitSha(r)

\* createCommit failed after createTree had returned a tree.
C14_Witness ==
  \E r \in runs :
    /\ failure[r].at = "createCommit"
    /\ Happened(r, "createTree", "ok")
    /\ Len(Issued(r, "createBlob")) = 2

\* C15: owner and repo are the last two slash-separated segments of the
\* origin URL once the line end and a trailing ".git" are removed: owner the
\* second to last, repo the last, however many segments the URL has.
UrlSegments(r) == split(replaceAtEnd(trimEnd(localRepo[r].origin), DotGit), {"/"})
C15_OwnerRepoAreLastTwoSegments ==
  \A r \in runs :
    identified(r) =>
      /\ Len(UrlSegments(r)) >= 2
      /\ REPO[r].owner = UrlSegments(r)[Len(UrlSegments(r)) - 1]
      /\ REPO[r].repo = UrlSegments(r)[Len(UrlSegments(r))]

\* C16: after its seeding CONTEXT.TASK.lastCommitSha is written at most once,
\* by the step in which createCommit returns successfully, and then it is the
\* commit id that was returned; no other step, successful or failing, changes it.
C16_LastCommitShaWrittenOnce ==
  [][\A r \in RunIds :
       /\ TASK'[r].lastCommitSha # TASK[r].lastCommitSha =>
            \/ /\ pc[r] = "remote"
               /\ TASK'[r].lastCommitSha = localRepo[r].head
            \/ /\ pc[r] = "createCommit" /\ pc'[r] = "updateRef"
               /\ TASK[r].lastCommitSha = localRepo[r].head
       /\ (pc[r] = "createCommit" /\ pc'[r] = "updateRef") =>
            calls'[r][Len(calls'[r]) - 1] =
              Event("createCommit", "ok", TASK'[r].lastCommitSha)]_vars

\* createCommit has returned and lastCommitSha holds the id of the new commit.
C16_Witness ==
  \E r \in runs :
    /\ pc[r] = "updateRef"
    /\ TASK[r].lastCommitSha = CallsOf(r, "createCommit", "ok")[1].arg
    /\ TASK[r].lastCommitSha # localRepo[r].head

\* C17: the uploads are sent without waiting for one another and joined. The
\* loop can go on while earlier createBlob requests are in flight; createTree
\* is issued only when every createBlob that was sent has succeeded; and
\* after the run failed on an upload, a sibling that is still in flight can
\* still complete.
C17_ConcurrentUploadsJoined ==
  \A r \in runs :
    /\ (pc[r] = "blobLoop" /\ ~loopDone(r)) => ENABLED createGithubBlobs(r)
    /\ Issued(r, "createTree") # <<>> =>
         /\ allFulfilled(promisesGithubCreateBlobs[r])
         /\ Len(CallsOf(r, "createBlob", "ok")) = Len(Issued(r, "createBlob"))
    /\ \A k \in 1..Len(promisesGithubCreateBlobs[r]) :
         (pc[r] = "failed" /\ promisesGithubCreateBlobs[r][k] = "pending") =>
           ENABLED (createBlobSettles(r)
                      /\ promisesGithubCreateBlobs'[r][k] = "fulfilled")

\* Both uploads were in flight together; the second was rejected, the run
\* failed at the join and the first is still in flight.
C17_Witness ==
  \E r \in runs :
    /\ Len(uploadsDue(r)) = 2
    /\ promisesGithubCreateBlobs[r] = <<"pending", "rejected">>
    /\ pc[r] = "failed" /\ failure[r].at = "createBlob"

\* C18: the Tree Reader returns one entry per line of the listing of the
\* commit, as listed, and nothing else; an empty listing gives an empty
\* snapshot. So what the run holds after a tree was read is the tree of the
\* commit that was read.
C18_OneEntryPerListingLine ==
  \A r \in runs :
    /\ Happened(r, "getTree", "ok") => desiredTree[r] = localRepo[r].workTree
    /\ pc[r] = "blobLoop" =>
         /\ previousTree[r] = localRepo[r].headTree
         /\ tree[r] = localRepo[r].workTree

\* C19: a branch the run created was created at the commit that was checked
\* out before the helper commit, the value lastCommitSha is seeded with; the
\* commit the run creates has that commit as its only parent, and after the
\* run completed the branch is at the new commit, one step ahead of where it
\* was created.
C19_NewBranchOneStepAhead ==
  \A r \in runs :
    Happened(r, "createRef", "ok") =>
      LET base == Issued(r, "createRef")[1].arg.sha
      IN /\ base = localRepo[r].head
         /\ base = REPO[r].sha
         /\ Issued(r, "createCommit") = <<>> => TASK[r].lastCommitSha = base
         /\ \A k \in 1..Len(Issued(r, "createCommit")) :
              Issued(r, "createCommit")[k].arg.parents = <<base>>
         /\ ~Happened(r, "updateRef", "ok") => remoteRefs[TASK[r].branch] = base
         /\ Happened(r, "updateRef", "ok") =>
              /\ remoteRefs[TASK[r].branch] = TASK[r].lastCommitSha
              /\ remoteRefs[TASK[r].branch] # base
              /\ \A c \in remoteCommits :
                   c.sha = remoteRefs[TASK[r].branch] => c.parents = <<base>>

\* The run created branch feat, while main had moved on, and completed.
C19_Witness ==
  \E r \in runs :
    /\ Happened(r, "createRef", "ok")
    /\ pc[r] = "completed"
    /\ remoteRefs["main"] # localRepo[r].head
    /\ remoteRefs["feat"] = TASK[r].lastCommitSha

\* C20: when the read of the parent of the replicated commit fails, no
\* previous tree is taken, empty or other: the run fails at that read (its
\* process may still end on an unhandled rejection afterwards) and issues no
\* createBlob, createTree, createCommit or updateRef.
parentReadFailed(r) ==
  \E k \in 1..Len(calls[r]) :
    calls[r][k] = Event("getTree", "err", TASK[r].localCommit \o <<"~", "1">>)
C20_UnresolvedParentFailsRun ==
  \A r \in runs :
    parentReadFailed(r) =>
      /\ pc[r] \in {"failed", "crashed"}
      /\ pc[r] = "failed" => failure[r].at = "getTree"
      /\ previousTree[r] = <<>> /\ idx[r] = 0
      /\ \A op \in {"createBlob", "createTree", "createCommit", "updateRef"} :
           Issued(r, op) = <<>>

\* The parent read failed while the read of the commit itself succeeded.
C20_Witness ==
  \E r \in runs :
    /\ parentReadFailed(r)
    /\ Len(CallsOf(r, "getTree", "ok")) = 2
    /\ pc[r] = "failed"
====
